---- MODULE Spec2Model ----
(***************************************************************************)
(* Model of the two batch pipelines of the regression-tree repository:     *)
(*   scripts/prepare_data.py  (Dataset Preparer: stratified fixed-size     *)
(*                             train/test split, CSV output)               *)
(*   scripts/train_tree.py    (Tree Exporter: fitted tree -> JSON nodes)   *)
(*                                                                         *)
(* Rows of a table are named by their original position, 1..n_total (the   *)
(* code's 0-based positions shifted by one).  A data frame is the sequence *)
(* of the original row ids it holds, in its own row order.                 *)
(***************************************************************************)
EXTENDS Integers, Sequences, FiniteSets, TLC

\* ------------------------------------------------------------------ bounds
MaxTotal == 25     \* largest number of records of the input table
MaxBins  == 2      \* largest --bins value
MaxSeed  == 1      \* largest --random-state value
MaxRuns  == 2      \* how many times the same request is run in a row
MaxExcess == 1     \* by how much train_size + test_size may exceed the table
MaxUnused == 3     \* how many rows of the table a request may leave unused

\* ------------------------------------------------------------ small helpers
Range(s) == {s[i] : i \in 1..Len(s)}

RECURSIVE Pow2(_)
Pow2(e) == IF e <= 0 THEN 1 ELSE 2 * Pow2(e - 1)

RECURSIVE SumSeq(_)
SumSeq(s) == IF s = <<>> THEN 0 ELSE Head(s) + SumSeq(Tail(s))

\* The elements of a finite set of integers, ascending (np.sort / np.unique).
RECURSIVE SortedSeq(_)
SortedSeq(S) ==
    IF S = {} THEN <<>>
    ELSE LET m == CHOOSE v \in S : \A w \in S : v <= w
         IN  <<m>> \o SortedSeq(S \ {m})

Take(s, k) == SubSeq(s, 1, IF k < Len(s) THEN k ELSE Len(s))

\* --------------------------------------------------- IEEE-754 double helper
(***************************************************************************)
(* train_prop = train_size / n_total and train_prop * n_samples are        *)
(* binary64 operations.  For integers 0 < a < n < 2^26 the sign of         *)
(* fl(fl(a / n) * n) - a is computed exactly with small integers:          *)
(*   fl(a/n) = m * 2^-(s+52), m the 53-bit quotient rounded to nearest     *)
(*   even, so m * n = a * 2^(s+52) + r with r the (signed) remainder of    *)
(*   the rounded division; the product a + r * 2^-(s+52) then rounds away  *)
(*   from a exactly when |r| exceeds half the spacing of doubles next to a.*)
(***************************************************************************)
RECURSIVE ShiftTo(_, _, _)
ShiftTo(a, n, s) == IF a * Pow2(s) >= n THEN s ELSE ShiftTo(a, n, s + 1)

RECURSIVE BitLen(_)
BitLen(a) == IF a <= 0 THEN 0 ELSE 1 + BitLen(a \div 2)

IsPow2(a) == a = Pow2(BitLen(a) - 1)

\* Binary long division: `steps` further quotient bits of rem / n.
RECURSIVE LongDiv(_, _, _, _)
LongDiv(rem, bit, n, steps) ==
    IF steps = 0 THEN [rem |-> rem, bit |-> bit]
    ELSE LET d == 2 * rem
         IN  IF d >= n THEN LongDiv(d - n, 1, n, steps - 1)
                       ELSE LongDiv(d, 0, n, steps - 1)

\* The signed remainder r of the rounded division: round to nearest, ties to even.
RoundedRemainder(q, n) ==
    IF 2 * q.rem > n \/ (2 * q.rem = n /\ q.bit = 1) THEN n - q.rem ELSE 0 - q.rem

\* Whether a + r * 2^-(s+52) rounds below (-1), to (0) or above (1) a; half is half
\* the spacing of the doubles above a, in units of 2^-(s+52).
RoundProduct(a, r, half) ==
    IF r > half THEN 1
    ELSE IF IsPow2(a) /\ 2 * (0 - r) > half THEN -1
    ELSE IF ~IsPow2(a) /\ (0 - r) > half THEN -1
    ELSE 0

PropTimesTotalAt(a, n, s) ==
    RoundProduct(a, RoundedRemainder(LongDiv(a * Pow2(s) - n, 1, n, 52), n),
                 Pow2(s + BitLen(a) - 2))

\* -1, 0 or 1: whether float(a / n) * n is below, equal to or above a.
PropTimesTotal(a, n) == PropTimesTotalAt(a, n, ShiftTo(a, n, 0))

\* floor(train_size / n_total * n_samples) and ceil(test_size / n_total * n_samples)
FloorProp(a, n) == IF PropTimesTotal(a, n) < 0 THEN a - 1 ELSE a
CeilProp(a, n)  == IF PropTimesTotal(a, n) > 0 THEN a + 1 ELSE a


\* ------------------------------------------------------------------- state
VARIABLES
    entry,          \* "cli": main() of prepare_data.py; "direct": a call of stratified_fixed_sizes
    y,              \* the target column, one value per input row (n_total = Len(y))
    train_size,     \* --train-size
    test_size,      \* --test-size
    random_state,   \* --random-state
    n_bins,         \* --bins
    pc,             \* position of the run
    stratify_bins,  \* make_stratify_bins' codes, <<>> before binning
    train_idx,      \* the splitter's train selection (row ids), <<>> before the split
    test_idx,       \* the splitter's test selection
    train_df,       \* rows of train_df
    test_df,        \* rows of test_df
    raised,         \* "none" or the exception that ended the run
    exit_status,    \* the process's exit status, -1 while it runs (and for a direct call)
    files,          \* what this run created on disk
    run_no,         \* 1 for the first run of the request, 2 for its repetition, ...
    prev_out,       \* the previous run's outcome, <<>> in the first run
    \* ---- train_tree.py
    t_pc,           \* position of the Tree Exporter run
    columns,        \* df.columns of the training table
    target,         \* --target
    feature_names,  \* main's feature_names
    x_columns,      \* the columns of the matrix the tree is fitted on
    sk,             \* tree.tree_: the fitted tree's parallel arrays
    nodes,          \* export_tree_json's node list
    tree_json,      \* export_tree_json's result, <<>> before it returns
    meta,           \* the meta.json object, <<>> before it is built
    t_raised        \* "none" or the exception that ended the run

prepVars == <<entry, y, train_size, test_size, random_state, n_bins, pc, stratify_bins,
              train_idx, test_idx, train_df, test_df, raised, exit_status, files,
              run_no, prev_out>>

treeVars == <<t_pc, columns, target, feature_names, x_columns, sk, nodes, tree_json,
              meta, t_raised>>

n_total == Len(y)

\* A generator seeded from the operating system instead of the seed: its stream differs
\* from one process to the next.
RandomStateUnseeded(seed) == (run_no * 977 + 5) % 65536

\* ---------------------------------------------------------------- the PRNG
(***************************************************************************)
(* numpy's RandomState(seed) is a deterministic generator: the stream is a *)
(* function of the seed alone.  The model keeps that and replaces the      *)
(* Mersenne Twister by a 16-bit linear congruential generator; a generator *)
(* is its current state, and every draw returns the value and the next     *)
(* state.                                                                  *)
(***************************************************************************)
\* check_random_state(seed): a generator seeded with an int.
RandomState(seed) == (seed * 2053 + 13) % 65536

\* One draw of an integer in 0..k-1.
DrawFrom(nxt, k) == [v |-> (nxt \div 16) % k, g |-> nxt]
Draw(g, k) == DrawFrom((g * 75 + 74) % 65536, k)

Swap(s, i, j) == [s EXCEPT ![i] = s[j], ![j] = s[i]]

\* rng.permutation: Fisher-Yates from the last position down.
RECURSIVE ShuffleFrom(_, _, _)
SwapDrawn(s, i, d) == ShuffleFrom(Swap(s, i, d.v + 1), i - 1, d.g)

ShuffleFrom(s, i, g) ==
    IF i < 2 THEN [seq |-> s, g |-> g] ELSE SwapDrawn(s, i, Draw(g, i))

Permutation(s, g) == ShuffleFrom(s, Len(s), g)

\* rng.choice(s, size=k, replace=False): the first k of a permutation.
FirstOf(p, k) == [seq |-> Take(p.seq, k), g |-> p.g]
Choice(s, k, g) == FirstOf(Permutation(s, g), k)

\* ------------------------------------------------------- make_stratify_bins
\* The k-th smallest target value, k = 0..n-1.
Kth(ys, k) ==
    CHOOSE v \in Range(ys) :
        /\ Cardinality({i \in 1..Len(ys) : ys[i] <= v}) >= k + 1
        /\ Cardinality({i \in 1..Len(ys) : ys[i] < v}) <= k

\* q times the j/q quantile of ys (linear interpolation between order statistics).
QuantileEdge(ys, q, j) ==
    LET p  == (Len(ys) - 1) * j
        lo == p \div q
        fr == p % q
    IN  IF fr = 0 THEN q * Kth(ys, lo)
        ELSE q * Kth(ys, lo) + fr * (Kth(ys, lo + 1) - Kth(ys, lo))

\* The bin edges after duplicates="drop" (two edges are never reduced).
BinEdges(ys, q) ==
    IF q = 1 THEN <<QuantileEdge(ys, q, 0), QuantileEdge(ys, q, 1)>>
    ELSE SortedSeq({QuantileEdge(ys, q, j) : j \in 0..q})

\* The category code of value v: right-closed intervals, lowest edge included, -1 for
\* a value in no interval.
BinCode(edges, q, v) ==
    LET below == Cardinality({k \in 1..Len(edges) : edges[k] < q * v})
        ids   == IF q * v = edges[1] THEN 1 ELSE below
    IN  IF ids = 0 \/ ids = Len(edges) THEN -1 ELSE ids - 1

BinCodes(ys, q, edges) == [i \in 1..Len(ys) |-> BinCode(edges, q, ys[i])]

make_stratify_bins(ys, q) == BinCodes(ys, q, BinEdges(ys, q))

\* ------------------------------------------- StratifiedShuffleSplit.split
\* _approximate_mode: the floor of each class's proportional share, then one more row
\* for the classes with the largest remainders, ties drawn from the generator.
RECURSIVE AddRemainders(_, _, _, _, _)
\* floored[inds] += 1 for the chosen classes, then the next remainder value.
AddChosen(floored, rems, values, need, c) ==
    AddRemainders([i \in 1..Len(floored) |->
                      IF i \in Range(c.seq) THEN floored[i] + 1 ELSE floored[i]],
                  rems, Tail(values), need - Len(c.seq), c.g)

\* np.where(remainder == value), and the draw of min(len(inds), need_to_add) of them.
ChooseAmong(floored, rems, values, need, g, inds) ==
    AddChosen(floored, rems, values, need,
              Choice(inds, IF Len(inds) < need THEN Len(inds) ELSE need, g))

AddRemainders(floored, rems, values, need, g) ==
    IF need = 0 \/ values = <<>> THEN [out |-> floored, g |-> g]
    ELSE ChooseAmong(floored, rems, values, need, g,
                     SelectSeq([i \in 1..Len(rems) |-> i],
                               LAMBDA i : rems[i] = Head(values)))

Reverse(s) == [i \in 1..Len(s) |-> s[Len(s) + 1 - i]]

ApproximateModeOf(floored, rems, n_draws, g) ==
    IF n_draws - SumSeq(floored) > 0
    THEN AddRemainders(floored, rems, Reverse(SortedSeq(Range(rems))),
                       n_draws - SumSeq(floored), g)
    ELSE [out |-> floored, g |-> g]

ApproximateModeIn(class_counts, n_draws, g, total) ==
    ApproximateModeOf(
        [i \in 1..Len(class_counts) |-> (class_counts[i] * n_draws) \div total],
        [i \in 1..Len(class_counts) |-> (class_counts[i] * n_draws) % total],
        n_draws, g)

ApproximateMode(class_counts, n_draws, g) ==
    ApproximateModeIn(class_counts, n_draws, g, SumSeq(class_counts))

\* np.unique(y): the classes, and the rows of each class in ascending row order.
Classes(codes) == SortedSeq(Range(codes))
ClassIndices(codes, c) == SelectSeq([i \in 1..Len(codes) |-> i], LAMBDA i : codes[i] = c)
ClassCounts(codes) ==
    LET cl == Classes(codes) IN [k \in 1..Len(cl) |-> Len(ClassIndices(codes, cl[k]))]

\* The per-class loop of _iter_indices: permute the class, the first n_i[k] rows go to
\* train and the next t_i[k] to test.
RECURSIVE TakePerClass(_, _, _, _, _, _, _)
\* perm_indices_class_i[:n_i[i]] and perm_indices_class_i[n_i[i] : n_i[i] + t_i[i]]
TakeFromClass(codes, n_i, t_i, k, train, test, p) ==
    TakePerClass(codes, n_i, t_i, k + 1,
                 train \o SubSeq(p.seq, 1, n_i[k]),
                 test \o SubSeq(p.seq, n_i[k] + 1, n_i[k] + t_i[k]),
                 p.g)

TakePerClass(codes, n_i, t_i, k, train, test, g) ==
    IF k > Len(n_i) THEN [train |-> train, test |-> test, g |-> g]
    ELSE TakeFromClass(codes, n_i, t_i, k, train, test,
                       Permutation(ClassIndices(codes, Classes(codes)[k]), g))

\* train = rng.permutation(train); test = rng.permutation(test)
PermuteTest(ptrain, test) == [train |-> ptrain.seq, test |-> Permutation(test, ptrain.g).seq]
PermuteBoth(sel) == PermuteTest(Permutation(sel.train, sel.g), sel.test)

\* t_i = _approximate_mode(class_counts - n_i, n_test, rng), then the per-class loop.
DrawTest(codes, m1, m2) == PermuteBoth(TakePerClass(codes, m1.out, m2.out, 1, <<>>, <<>>, m2.g))
DrawTrain(codes, counts, n_test, m1) ==
    DrawTest(codes, m1,
             ApproximateMode([k \in 1..Len(counts) |-> counts[k] - m1.out[k]], n_test, m1.g))

IterIndicesOf(codes, counts, n_train, n_test, g) ==
    DrawTrain(codes, counts, n_test, ApproximateMode(counts, n_train, g))

IterIndices(codes, n_train, n_test, g) ==
    IterIndicesOf(codes, ClassCounts(codes), n_train, n_test, g)

\* _validate_shuffle_split with two float proportions test / n_samples and
\* train / n_samples: each must lie strictly between 0 and 1; n_train is the floor and
\* n_test the ceiling of proportion * n_samples; the two may not exceed the table and
\* n_train may not be 0.  (Its check that the two proportions add up to at most 1
\* cannot fail here: for train + test <= n_samples the double sum of the two rounded
\* quotients is at most 1.0.)
ValidateCounts(n_samples, n_test, n_train) ==
    IF n_train + n_test > n_samples \/ n_train = 0
    THEN [err |-> "ValueError", n_train |-> 0, n_test |-> 0]
    ELSE [err |-> "none", n_train |-> n_train, n_test |-> n_test]

ValidateShuffleSplit(n_samples, test, train) ==
    IF test <= 0 \/ test >= n_samples \/ train <= 0 \/ train >= n_samples
    THEN [err |-> "ValueError", n_train |-> 0, n_test |-> 0]
    ELSE ValidateCounts(n_samples, CeilProp(test, n_samples), FloorProp(train, n_samples))

\* next(splitter.split(indices, stratify_bins)) of lines 65-77.
SplitChecked(codes, seed, v, counts) ==
    IF v.err # "none" THEN [err |-> v.err, train |-> <<>>, test |-> <<>>]
    ELSE IF \/ \E k \in 1..Len(counts) : counts[k] < 2
            \/ v.n_train < Len(counts)
            \/ v.n_test < Len(counts)
    THEN [err |-> "ValueError", train |-> <<>>, test |-> <<>>]
    ELSE [err |-> "none"] @@ IterIndices(codes, v.n_train, v.n_test, RandomState(seed))

SplitOnce(codes, train, test, seed) ==
    SplitChecked(codes, seed, ValidateShuffleSplit(Len(codes), test, train),
                 ClassCounts(codes))

\* DataFrame.sample(n=k, random_state=seed).reset_index(drop=True)
Sample(df, k, seed) == Choice(df, k, RandomState(seed)).seq

\* The sum check off by one.
SizesFitOffByOne(train, test, n) == train + test <= n + 1

\* The asserts of lines 58-61.
SizesPositive(train, test) == train > 0 /\ test > 0
SizesFit(train, test, n) == train + test <= n

\* The guard with the test rows forgotten.
ExceedsDatasetTrainOnly(train, test, n) == train > n

\* The guard of lines 110-113.
ExceedsDataset(train, test, n) == train + test > n

\* ------------------------------------------------------------------ inputs
Shapes == {"distinct", "cycle", "outliers", "constant"}

\* A target column of n values: all distinct, three values in rotation, one value
\* with a single low and a single high outlier, or one value throughout.
Target(n, shape) ==
    [i \in 1..n |->
        CASE shape = "distinct" -> i
          [] shape = "cycle"    -> i % 3
          [] shape = "outliers" -> IF i = 1 THEN 0 ELSE IF i = n THEN 9 ELSE 5
          [] OTHER              -> 7]

\* The table sizes: the smallest tables, and the largest the bound allows.
Totals == (1..4) \cup ((MaxTotal - 3)..MaxTotal)

Outcome == [raised |-> raised, train_df |-> train_df, test_df |-> test_df,
            exit_status |-> exit_status, files |-> files]

PrepInit ==
    /\ entry \in {"cli", "direct"}
    /\ \E n \in Totals, shape \in Shapes : y = Target(n, shape)
    /\ train_size \in -1..(Len(y) + MaxExcess)
    /\ test_size \in -1..(Len(y) + MaxExcess)
    /\ train_size + test_size <= Len(y) + MaxExcess
    /\ train_size + test_size >= Len(y) - MaxUnused
    /\ random_state \in 0..MaxSeed
    /\ n_bins \in 1..MaxBins
    /\ pc = IF entry = "cli" THEN "main" ELSE "call"
    /\ stratify_bins = <<>>
    /\ train_idx = <<>>
    /\ test_idx = <<>>
    /\ train_df = <<>>
    /\ test_df = <<>>
    /\ raised = "none"
    /\ exit_status = -1
    /\ files = {}
    /\ run_no = 1
    /\ prev_out = <<>>

inputVars == <<entry, y, train_size, test_size, random_state, n_bins, run_no, prev_out>>

\* An uncaught exception ends the run: the interpreter exits with status 1 (a direct
\* call hands the exception to its caller).
Raise(exc) ==
    /\ raised' = exc
    /\ exit_status' = IF entry = "cli" THEN 1 ELSE -1
    /\ pc' = "exit"

\* main, lines 105-113: load the table and refuse a request larger than it.
MainSizeCheck ==
    /\ pc = "main"
    /\ UNCHANGED treeVars
    /\ IF ExceedsDataset(train_size, test_size, n_total)
       THEN Raise("SystemExit")
       ELSE /\ pc' = "call"
            /\ UNCHANGED <<raised, exit_status>>
    /\ UNCHANGED <<inputVars, stratify_bins, train_idx, test_idx, train_df, test_df, files>>

\* stratified_fixed_sizes, lines 57-61.
AssertSizes ==
    /\ pc = "call"
    /\ UNCHANGED treeVars
    /\ IF SizesPositive(train_size, test_size) /\ SizesFit(train_size, test_size, n_total)
       THEN /\ pc' = "bins"
            /\ UNCHANGED <<raised, exit_status>>
       ELSE Raise("AssertionError")
    /\ UNCHANGED <<inputVars, stratify_bins, train_idx, test_idx, train_df, test_df, files>>

\* line 63.
MakeStratifyBins ==
    /\ pc = "bins"
    /\ UNCHANGED treeVars
    /\ stratify_bins' = make_stratify_bins(y, n_bins)
    /\ pc' = "split"
    /\ UNCHANGED <<inputVars, train_idx, test_idx, train_df, test_df, raised, exit_status, files>>

\* lines 65-83: the proportional stratified split and the two frames built from it.
Split ==
    /\ pc = "split"
    /\ UNCHANGED treeVars
    /\ \E r \in {SplitOnce(stratify_bins, train_size, test_size, random_state)} :
           IF r.err # "none"
           THEN /\ Raise(r.err)
                /\ UNCHANGED <<train_idx, test_idx, train_df, test_df>>
           ELSE /\ train_idx' = r.train
                /\ test_idx' = r.test
                /\ train_df' = r.train
                /\ test_df' = r.test
                /\ pc' = "trim"
                /\ UNCHANGED <<raised, exit_status>>
    /\ UNCHANGED <<inputVars, stratify_bins, files>>

\* The test frame resampled from the whole table instead of from itself.
TrimTestFromTable(df, size, seed) ==
    IF Len(df) > size THEN Sample([i \in 1..n_total |-> i], size, seed + 1) ELSE df

\* The test frame never trimmed.
TrimTestOff(df, size, seed) == df

TrimTrain(df, size, seed) == IF Len(df) > size THEN Sample(df, size, seed) ELSE df
TrimTest(df, size, seed) == IF Len(df) > size THEN Sample(df, size, seed + 1) ELSE df

\* lines 85-91: trim an oversized frame and return.
Trim ==
    /\ pc = "trim"
    /\ UNCHANGED treeVars
    /\ train_df' = TrimTrain(train_df, train_size, random_state)
    /\ test_df' = TrimTest(test_df, test_size, random_state)
    /\ pc' = IF entry = "cli" THEN "mkdir" ELSE "exit"
    /\ UNCHANGED <<inputVars, stratify_bins, train_idx, test_idx, raised, exit_status, files>>

\* main, lines 124-125.
MkDir ==
    /\ pc = "mkdir"
    /\ UNCHANGED treeVars
    /\ files' = files \cup {"out_dir"}
    /\ pc' = "write_train"
    /\ UNCHANGED <<inputVars, stratify_bins, train_idx, test_idx, train_df, test_df,
                   raised, exit_status>>

\* main, line 130.
WriteTrain ==
    /\ pc = "write_train"
    /\ UNCHANGED treeVars
    /\ files' = files \cup {"train_csv"}
    /\ pc' = "write_test"
    /\ UNCHANGED <<inputVars, stratify_bins, train_idx, test_idx, train_df, test_df,
                   raised, exit_status>>

\* main, lines 131-135: the second file, the report and the normal exit.
WriteTest ==
    /\ pc = "write_test"
    /\ UNCHANGED treeVars
    /\ files' = files \cup {"test_csv"}
    /\ exit_status' = 0
    /\ pc' = "exit"
    /\ UNCHANGED <<inputVars, stratify_bins, train_idx, test_idx, train_df, test_df, raised>>

\* The operator runs the same request again (same table, sizes, seed and bin count).
RunAgain ==
    /\ pc = "exit"
    /\ UNCHANGED treeVars
    /\ run_no < MaxRuns
    /\ run_no' = run_no + 1
    /\ prev_out' = Outcome
    /\ pc' = IF entry = "cli" THEN "main" ELSE "call"
    /\ stratify_bins' = <<>>
    /\ train_idx' = <<>>
    /\ test_idx' = <<>>
    /\ train_df' = <<>>
    /\ test_df' = <<>>
    /\ raised' = "none"
    /\ exit_status' = -1
    /\ files' = {}
    /\ UNCHANGED <<entry, y, train_size, test_size, random_state, n_bins>>

\* =============================================================== train_tree.py
MaxNodes == 5      \* largest node count of a fitted tree

\* sklearn's sentinels: a leaf has both children TREE_LEAF and feature TREE_UNDEFINED.
TREE_LEAF == -1
TREE_UNDEFINED == -2

ColumnNames == {"a", "b", "t"}

\* The header rows considered: one to three distinct column names, in any order.
Headers ==
    {h \in UNION {[1..k -> ColumnNames] : k \in 1..3} :
        \A i, j \in 1..Len(h) : i # j => h[i] # h[j]}

\* The target column left in the list.
FeatureNamesAll(cols, tgt) == cols

\* [c for c in df.columns if c != args.target], line 90.
FeatureNames(cols, tgt) == SelectSeq(cols, LAMBDA c : c # tgt)

\* df.drop(columns=[target_col]), line 30: the same columns in the same order.
DropColumn(cols, tgt) == SelectSeq(cols, LAMBDA c : c # tgt)

\* Preorder shapes of a binary tree with k nodes: leaf[i] says whether node i (0-based,
\* numbered in the order the depth-first builder adds nodes) is a leaf.
RECURSIVE Pending(_, _)
Pending(leaf, i) ==
    IF i < 0 THEN 1 ELSE Pending(leaf, i - 1) - 1 + (IF leaf[i] THEN 0 ELSE 2)

TreeShapes(k) ==
    {leaf \in [0..(k - 1) -> BOOLEAN] :
        /\ Pending(leaf, k - 1) = 0
        /\ \A i \in 0..(k - 2) : Pending(leaf, i) > 0}

\* The last node of the subtree rooted at node i.
SubtreeEnd(leaf, i) ==
    CHOOSE j \in DOMAIN leaf :
        /\ j >= i
        /\ Pending(leaf, j) = Pending(leaf, i - 1) - 1
        /\ \A m \in i..(j - 1) : Pending(leaf, m) > Pending(leaf, i - 1) - 1

\* The arrays of a tree of the given shape whose interior node i splits on column f[i].
TreeArrays(leaf, f) ==
    LET k == Cardinality(DOMAIN leaf)
    IN  [node_count     |-> k,
         children_left  |-> [i \in 0..(k - 1) |-> IF leaf[i] THEN TREE_LEAF ELSE i + 1],
         children_right |-> [i \in 0..(k - 1) |->
                                IF leaf[i] THEN TREE_LEAF ELSE SubtreeEnd(leaf, i + 1) + 1],
         feature        |-> [i \in 0..(k - 1) |-> IF leaf[i] THEN TREE_UNDEFINED ELSE f[i]],
         threshold      |-> [i \in 0..(k - 1) |-> IF leaf[i] THEN TREE_UNDEFINED ELSE 10 + i],
         n_node_samples |-> [i \in 0..(k - 1) |-> 20 * (k - i)],
         impurity       |-> [i \in 0..(k - 1) |-> IF leaf[i] THEN 0 ELSE 1],
         value          |-> [i \in 0..(k - 1) |-> 100 + i]]

\* The arrays DecisionTreeRegressor.fit can leave in tree_ for a matrix of n_features
\* columns: a preorder-numbered binary tree, every interior node splitting on one of
\* the matrix's columns.
FittedTrees(n_features) ==
    UNION { {TreeArrays(leaf, f) : f \in [DOMAIN leaf -> 0..(n_features - 1)]}
            : leaf \in UNION {TreeShapes(k) : k \in 1..MaxNodes} }

\* Python's list[idx]: 0-based, a negative idx counts from the end, anything else
\* raises IndexError.
ListItem(names, idx) ==
    IF idx >= 0 /\ idx < Len(names) THEN names[idx + 1]
    ELSE IF idx < 0 /\ 0 - idx <= Len(names) THEN names[Len(names) + idx + 1]
    ELSE "IndexError"

\* A loop that starts at node 1.
ExportRangeFromOne(tree) == [p \in 1..(tree.node_count - 1) |-> p]

\* line 46.
IsLeaf(tree, i) == tree.children_left[i] = tree.children_right[i]

\* node_dict with the two children exchanged.
node_dict_swapped(tree, names, i) ==
    LET d == [id       |-> i,
              isLeaf   |-> IsLeaf(tree, i),
              nSamples |-> tree.n_node_samples[i],
              impurity |-> tree.impurity[i],
              value    |-> tree.value[i]]
    IN  IF ~IsLeaf(tree, i)
        THEN [feature      |-> ListItem(names, tree.feature[i]),
              featureIndex |-> tree.feature[i],
              threshold    |-> tree.threshold[i],
              left         |-> tree.children_right[i],
              right        |-> tree.children_left[i]] @@ d
        ELSE d

\* export_tree_json.node_dict, lines 45-65.
node_dict(tree, names, i) ==
    LET d == [id       |-> i,
              isLeaf   |-> IsLeaf(tree, i),
              nSamples |-> tree.n_node_samples[i],
              impurity |-> tree.impurity[i],
              value    |-> tree.value[i]]
    IN  IF ~IsLeaf(tree, i)
        THEN [feature      |-> ListItem(names, tree.feature[i]),
              featureIndex |-> tree.feature[i],
              threshold    |-> tree.threshold[i],
              left         |-> tree.children_left[i],
              right        |-> tree.children_right[i]] @@ d
        ELSE d

\* range(sk.node_count), line 67: the ids the loop visits, in order.
ExportRange(tree) == [p \in 1..tree.node_count |-> p - 1]

TreeInit ==
    /\ t_pc = "main"
    /\ columns \in Headers
    /\ target \in {"t", "u"}
    /\ feature_names = <<>>
    /\ x_columns = <<>>
    /\ sk = <<>>
    /\ nodes = <<>>
    /\ tree_json = <<>>
    /\ meta = <<>>
    /\ t_raised = "none"

\* The Tree Exporter is not running.
TreeIdle ==
    /\ t_pc = "idle"
    /\ columns = <<>>
    /\ target = ""
    /\ feature_names = <<>>
    /\ x_columns = <<>>
    /\ sk = <<>>
    /\ nodes = <<>>
    /\ tree_json = <<>>
    /\ meta = <<>>
    /\ t_raised = "none"

\* The Dataset Preparer is not running.
PrepIdle ==
    /\ entry = "none"
    /\ y = <<>>
    /\ train_size = 0
    /\ test_size = 0
    /\ random_state = 0
    /\ n_bins = 0
    /\ pc = "idle"
    /\ stratify_bins = <<>>
    /\ train_idx = <<>>
    /\ test_idx = <<>>
    /\ train_df = <<>>
    /\ test_df = <<>>
    /\ raised = "none"
    /\ exit_status = -1
    /\ files = {}
    /\ run_no = 1
    /\ prev_out = <<>>

\* main, lines 89-90.
ReadCsv ==
    /\ t_pc = "main"
    /\ feature_names' = FeatureNames(columns, target)
    /\ t_pc' = "train"
    /\ UNCHANGED <<columns, target, x_columns, sk, nodes, tree_json, meta, t_raised>>
    /\ UNCHANGED prepVars

\* main, lines 92-98, and train_tree, lines 30-38: dropping a column the table does not
\* have raises KeyError, fitting a matrix without columns raises ValueError.
TrainTree ==
    /\ t_pc = "train"
    /\ IF target \notin Range(columns)
       THEN /\ t_raised' = "KeyError"
            /\ t_pc' = "exit"
            /\ UNCHANGED <<x_columns, sk>>
       ELSE /\ x_columns' = DropColumn(columns, target)
            /\ IF Len(x_columns') = 0
               THEN /\ t_raised' = "ValueError"
                    /\ t_pc' = "exit"
                    /\ sk' = sk
               ELSE /\ sk' \in FittedTrees(Len(x_columns'))
                    /\ t_pc' = "export"
                    /\ t_raised' = t_raised
    /\ UNCHANGED <<columns, target, feature_names, nodes, tree_json, meta>>
    /\ UNCHANGED prepVars

\* export_tree_json, lines 67-68: one iteration of the loop.
ExportNode ==
    /\ t_pc = "export"
    /\ Len(nodes) < Len(ExportRange(sk))
    /\ LET d == node_dict(sk, feature_names, ExportRange(sk)[Len(nodes) + 1])
       IN  IF "feature" \in DOMAIN d /\ d.feature = "IndexError"
           THEN /\ t_raised' = "IndexError"
                /\ t_pc' = "exit"
                /\ nodes' = nodes
           ELSE /\ nodes' = Append(nodes, d)
                /\ UNCHANGED <<t_raised, t_pc>>
    /\ UNCHANGED <<columns, target, feature_names, x_columns, sk, tree_json, meta>>
    /\ UNCHANGED prepVars

\* export_tree_json, line 70.
ExportReturn ==
    /\ t_pc = "export"
    /\ Len(nodes) >= Len(ExportRange(sk))
    /\ tree_json' = [root |-> 0, nodes |-> nodes]
    /\ t_pc' = "meta"
    /\ UNCHANGED <<columns, target, feature_names, x_columns, sk, nodes, meta, t_raised>>
    /\ UNCHANGED prepVars

\* main, lines 102-132: the metadata object and the two files.
WriteMeta ==
    /\ t_pc = "meta"
    /\ meta' = [featureNames |-> feature_names, target |-> target]
    /\ t_pc' = "exit"
    /\ UNCHANGED <<columns, target, feature_names, x_columns, sk, nodes, tree_json, t_raised>>
    /\ UNCHANGED prepVars

vars == <<prepVars, treeVars>>

\* ------------------------------------------------------------ specifications
\* The Dataset Preparer.
Init == PrepInit /\ TreeIdle

Next ==
    \/ MainSizeCheck
    \/ AssertSizes
    \/ MakeStratifyBins
    \/ Split
    \/ Trim
    \/ MkDir
    \/ WriteTrain
    \/ WriteTest
    \/ RunAgain

Spec == Init /\ [][Next]_vars

\* The Tree Exporter.
TreeNext ==
    \/ ReadCsv
    \/ TrainTree
    \/ ExportNode
    \/ ExportReturn
    \/ WriteMeta

TreeSpecInit == PrepIdle /\ TreeInit

TreeSpec == TreeSpecInit /\ [][TreeNext]_vars

\* ==================================================================== claims
\* The request satisfies the documented constraint.
ValidRequest == train_size > 0 /\ test_size > 0 /\ train_size + test_size <= n_total

\* stratified_fixed_sizes has returned its two frames.
Returned == raised = "none" /\ pc \in {"mkdir", "write_train", "write_test", "exit"}

\* The split has produced its selection.
SplitDone == raised = "none" /\ pc \in {"trim", "mkdir", "write_train", "write_test", "exit"}

NoDuplicates(s) == Cardinality(Range(s)) = Len(s)

\* C1: for every valid request the returned train frame has exactly train_size rows
\* and the returned test frame exactly test_size rows.
C1_ExactSizes ==
    (ValidRequest /\ Returned) =>
        (Len(train_df) = train_size /\ Len(test_df) = test_size)

\* C2: the train and test subsets share no input row, neither in the splitter's
\* selection nor in the frames returned after trimming, and no row is taken twice.
C2_Disjoint ==
    SplitDone =>
        /\ Range(train_idx) \cap Range(test_idx) = {}
        /\ Range(train_df) \cap Range(test_df) = {}
        /\ NoDuplicates(train_df) /\ NoDuplicates(test_df)
        /\ Range(train_df) \cup Range(test_df) \subseteq 1..n_total

\* A returned pair of frames whose test frame went through the downsampling.
C2_Witness ==
    /\ Returned /\ pc = "exit"
    /\ Len(test_idx) > test_size
    /\ Len(test_df) = test_size
    /\ Len(train_df) > 0

\* C3: a request with a non-positive size or with train_size + test_size above the
\* number of records never reaches binning, splitting or sampling, and a call of
\* stratified_fixed_sizes with it ends in the AssertionError of the size checks.
C3_RejectedBeforeWork ==
    ~ValidRequest =>
        /\ pc \in {"main", "call", "exit"}
        /\ stratify_bins = <<>> /\ train_idx = <<>> /\ test_idx = <<>>
        /\ train_df = <<>> /\ test_df = <<>>
        /\ (pc = "exit" /\ entry = "direct") => raised = "AssertionError"
        /\ (pc = "exit" /\ entry = "cli") => raised \in {"SystemExit", "AssertionError"}

\* A direct call with positive sizes whose sum is above the table, refused by the
\* function's own check.
C3_Witness ==
    /\ entry = "direct" /\ pc = "exit" /\ raised = "AssertionError"
    /\ train_size > 0 /\ test_size > 0 /\ train_size + test_size > n_total

\* C4: a request whose sizes are positive and add up to exactly the number of
\* records succeeds and its two subsets together hold every record, while a request
\* for one row more is refused with the size error.  Stated for one bin, where every
\* row is in the same stratum and the split cannot fail for want of rows in a stratum.
C4_BoundarySucceeds ==
    /\ (ValidRequest /\ train_size + test_size = n_total /\ n_bins = 1 /\ pc = "exit") =>
           /\ raised = "none"
           /\ Range(train_df) \cup Range(test_df) = 1..n_total
    /\ (train_size > 0 /\ test_size > 0 /\ train_size + test_size = n_total + 1
        /\ pc = "exit") => raised \in {"SystemExit", "AssertionError"}

C6_OneRecordPerNode ==
    /\ \A p \in 1..Len(nodes) : nodes[p].id = p - 1
    /\ tree_json # <<>> =>
           /\ tree_json.root = 0
           /\ Len(tree_json.nodes) = sk.node_count
           /\ \A i \in 0..(sk.node_count - 1) : tree_json.nodes[i + 1].id = i

\* The export of a tree with a split below the root has returned.
C6_Witness == tree_json # <<>> /\ sk.node_count >= 5 /\ Len(tree_json.nodes) >= 5

SplitKeys == {"feature", "featureIndex", "threshold", "left", "right"}

\* C7: a record is a leaf exactly when the source arrays give its node equal children;
\* a leaf record has none of the five split keys; an interior record has all five,
\* with left and right the source child ids, and in the returned list both are ids of
\* records of that list.
C7_LeafAndSplitRecords ==
    /\ \A p \in 1..Len(nodes) :
          LET r == nodes[p]
          IN  /\ r.isLeaf <=> (sk.children_left[r.id] = sk.children_right[r.id])
              /\ r.isLeaf => DOMAIN r \cap SplitKeys = {}
              /\ ~r.isLeaf =>
                    /\ SplitKeys \subseteq DOMAIN r
                    /\ r.left = sk.children_left[r.id]
                    /\ r.right = sk.children_right[r.id]
    /\ tree_json # <<>> =>
          \A p \in 1..Len(tree_json.nodes) :
              ~tree_json.nodes[p].isLeaf =>
                  {tree_json.nodes[p].left, tree_json.nodes[p].right}
                      \subseteq {tree_json.nodes[q].id : q \in 1..Len(tree_json.nodes)}

\* A returned list with an interior record below the root and leaf records.
C7_Witness ==
    /\ tree_json # <<>>
    /\ \E p \in 2..Len(nodes) : ~nodes[p].isLeaf
    /\ \E p \in 1..Len(nodes) : nodes[p].isLeaf

\* C8: a command-line run with train-size + test-size above the dataset size ends with
\* status 1 and the SystemExit message, one with a non-positive size (and a sum within
\* the dataset) with status 1 and the AssertionError message; neither creates the
\* output directory or a CSV file, and no run that ends in an error leaves one.
C8_ConfigErrorLeavesNothing ==
    /\ (entry = "cli" /\ ~ValidRequest) =>
           /\ files = {}
           /\ pc \in {"main", "call", "exit"}
           /\ pc = "exit" =>
                 /\ exit_status = 1
                 /\ raised = IF train_size + test_size > n_total
                             THEN "SystemExit" ELSE "AssertionError"
    /\ raised # "none" => files = {}
    /\ exit_status = 1 => files = {}

\* A command-line run refused for a zero size, and ended.
C8_Witness ==
    /\ entry = "cli" /\ pc = "exit" /\ raised = "AssertionError"
    /\ exit_status = 1 /\ train_size + test_size <= n_total

\* C9: after the trimming step a frame whose selection was larger than requested
\* holds exactly the requested number of rows, all from its own selection (train
\* sampled with the seed, test with seed + 1), a frame whose selection was not larger
\* is the selection unchanged; no returned frame has more rows than requested.
C9_Trimmed ==
    Returned =>
        /\ Len(train_idx) > train_size =>
              /\ train_df = Sample(train_idx, train_size, random_state)
              /\ Len(train_df) = train_size
        /\ Len(train_idx) <= train_size => train_df = train_idx
        /\ Len(test_idx) > test_size =>
              /\ test_df = Sample(test_idx, test_size, random_state + 1)
              /\ Len(test_df) = test_size
        /\ Len(test_idx) <= test_size => test_df = test_idx
        /\ Range(train_df) \subseteq Range(train_idx)
        /\ Range(test_df) \subseteq Range(test_idx)
        /\ Len(train_df) <= train_size /\ Len(test_df) <= test_size

\* The trimming step has cut an oversized test selection.
C9_Witness ==
    /\ Returned
    /\ Len(test_idx) = test_size + 1
    /\ Len(test_df) = test_size
    /\ test_df # Take(test_idx, test_size)

\* C10: the feature-name list is the table's columns without the target, in table
\* order; it is the column list of the fitted matrix and the featureNames of the
\* metadata; every interior record's featureIndex is an index into it and its feature
\* is the name of the fitted matrix's column of that index.
C10_FeatureNames ==
    /\ t_pc \notin {"idle", "main"} =>
           feature_names = SelectSeq(columns, LAMBDA c : c # target)
    /\ t_pc \in {"export", "meta"} \/ (t_pc = "exit" /\ t_raised = "none") =>
           /\ feature_names = x_columns
           /\ \A p \in 1..Len(nodes) :
                 ~nodes[p].isLeaf =>
                     /\ nodes[p].featureIndex \in 0..(Len(feature_names) - 1)
                     /\ nodes[p].feature = x_columns[nodes[p].featureIndex + 1]
                     /\ nodes[p].feature = feature_names[nodes[p].featureIndex + 1]
    /\ meta # <<>> => meta.featureNames = feature_names

\* A finished export of a tree that splits on the column after the target column.
C10_Witness ==
    /\ t_pc = "exit" /\ meta # <<>>
    /\ columns[1] = target
    /\ \E p \in 1..Len(nodes) : ~nodes[p].isLeaf /\ nodes[p].featureIndex = 1
====
